---- MODULE Spec2Model ----
(***************************************************************************)
(* A model of gobinaries: the storage key derivation and the local        *)
(* filesystem object store (storage/local.go), the builder (build/build.go)*)
(* and the request coordination that sits between them.                    *)
(*                                                                         *)
(* Strings are sequences of one-character strings, so that replacing,     *)
(* splitting, joining, parsing and formatting are computed character by   *)
(* character, as the Go code computes them.                                *)
(***************************************************************************)
EXTENDS Integers, Sequences, FiniteSets, TLC

VARIABLES
    fnBin, fnKey, fnDep,        \* pure functions: the input target and the computed outputs
    fs, sdirs, sop, sret, ncalls, everCreated, objects, settled, broken,
                                \* local object store: files and directories by path, the
                                \* storage calls in progress, the last call that returned,
                                \* and what has been created
    ws, att, aret, nwrites,     \* builder: workspace directories, the build.Write calls in
                                \* progress, the last one that returned, and their number
    procEnv, environMap, run, ibin,
                                \* install: the process environment of two runs of the
                                \* program, the map init() makes of it, what each run's
                                \* Write has done up to the return of install, the target
    req, section, conc          \* coordinator: the requests, the holder of each target's
                                \* section, and the pairs of requests that were in flight
                                \* at the same time

fnVars    == <<fnBin, fnKey, fnDep>>
storeVars == <<fs, sdirs, sop, sret, ncalls, everCreated, objects, settled, broken>>
buildVars == <<ws, att, aret, nwrites>>
installVars == <<procEnv, environMap, run, ibin>>
coordVars == <<req, section, conc>>
vars      == <<fnVars, storeVars, buildVars, installVars, coordVars>>

-----------------------------------------------------------------------------
(* Bounds of the model. *)

MaxPathLen == 3     \* longest package path, in characters
MaxMajor   == 11    \* largest major version of a well-formed tag
MaxMinor   == 1     \* largest minor version of a well-formed tag
NOps       == 2     \* storage calls made in one run
MaxFiles   == 2     \* entries of a workspace directory, in the order Walk visits them
NAttempts  == 2     \* build.Write calls made in one run
NReq       == 2     \* requests the coordinator receives in one run
MaxValueLen == 2    \* longest value of an environment variable, in characters

-----------------------------------------------------------------------------
(* Strings *)

Digits == <<"0", "1", "2", "3", "4", "5", "6", "7", "8", "9">>

IsDigit(c) == \E i \in 1..10 : Digits[i] = c

DigitVal(c) == (CHOOSE i \in 1..10 : Digits[i] = c) - 1

\* strings.Replace(s, old, new, -1) for a one-character old and new
RECURSIVE ReplaceAll(_, _, _)
ReplaceAll(s, old, new) ==
    IF s = <<>> THEN <<>>
    ELSE <<IF Head(s) = old THEN new ELSE Head(s)>> \o ReplaceAll(Tail(s), old, new)

\* strings.Split(s, sep)[0]: the part of s before the first sep, all of s when there is none
RECURSIVE SplitFirst(_, _)
SplitFirst(s, sep) ==
    IF s = <<>> \/ Head(s) = sep THEN <<>>
    ELSE <<Head(s)>> \o SplitFirst(Tail(s), sep)

\* strings.Split(s, sep) for a one-character sep: the parts of s between the seps
RECURSIVE Split(_, _)
Split(s, sep) ==
    IF s = <<>> THEN << <<>> >>
    ELSE IF Head(s) = sep THEN << <<>> >> \o Split(Tail(s), sep)
    ELSE LET rest == Split(Tail(s), sep)
         IN  << <<Head(s)>> \o rest[1] >> \o Tail(rest)

\* strings.HasPrefix
HasPrefix(s, p) == Len(s) >= Len(p) /\ SubSeq(s, 1, Len(p)) = p

\* strings.TrimPrefix
TrimPrefix(s, p) == IF HasPrefix(s, p) THEN SubSeq(s, Len(p) + 1, Len(s)) ELSE s

IsSpace(c) == c \in {" ", "\n", "\t"}

\* strings.TrimSpace: leading and trailing white space removed
RECURSIVE TrimLeft(_)
TrimLeft(s) == IF s # <<>> /\ IsSpace(Head(s)) THEN TrimLeft(Tail(s)) ELSE s

RECURSIVE TrimRight(_)
TrimRight(s) ==
    IF s # <<>> /\ IsSpace(s[Len(s)]) THEN TrimRight(SubSeq(s, 1, Len(s) - 1)) ELSE s

TrimSpace(s) == TrimRight(TrimLeft(s))

\* the value of a string of decimal digits, most significant first
RECURSIVE DigitsValue(_, _)
DigitsValue(s, acc) ==
    IF s = <<>> THEN acc ELSE DigitsValue(Tail(s), acc * 10 + DigitVal(Head(s)))

\* strconv.Atoi: an optional sign, then one or more decimal digits; anything else is an
\* error. (The strings of the model have at most two digits: no value leaves int.)
Atoi(s) ==
    LET signed == s # <<>> /\ Head(s) \in {"+", "-"}
        body   == IF signed THEN Tail(s) ELSE s
    IN  IF body = <<>> \/ \E i \in 1..Len(body) : ~IsDigit(body[i])
        THEN [ok |-> FALSE, val |-> 0]
        ELSE [ok |-> TRUE,
              val |-> IF signed /\ Head(s) = "-" THEN 0 - DigitsValue(body, 0)
                      ELSE DigitsValue(body, 0)]

\* fmt's %d of a natural number
RECURSIVE Itoa(_)
Itoa(n) ==
    IF n < 10 THEN <<Digits[n + 1]>> ELSE Itoa(n \div 10) \o <<Digits[(n % 10) + 1]>>

\* filepath.Clean on the paths of the model (no "." or ".." element, not rooted):
\* runs of separators collapse to one and a trailing separator is dropped
RECURSIVE Collapse(_)
Collapse(s) ==
    IF Len(s) < 2 THEN s
    ELSE IF s[1] = "/" /\ s[2] = "/" THEN Collapse(Tail(s))
    ELSE <<Head(s)>> \o Collapse(Tail(s))

Clean(s) ==
    LET c == Collapse(s)
    IN  IF Len(c) > 1 /\ c[Len(c)] = "/" THEN SubSeq(c, 1, Len(c) - 1) ELSE c

\* filepath.Join of two elements: empty elements are ignored, the result is cleaned
Join(a, b) ==
    IF a = <<>> THEN Clean(b)
    ELSE IF b = <<>> THEN Clean(a)
    ELSE Clean(a \o <<"/">> \o b)

-----------------------------------------------------------------------------
(* gobinaries.Binary: the build target, as the code under src/ uses its fields *)

PathChars == {"a", "-", "/"}

\* an import path: non-empty elements separated by single slashes
WellFormedPath(p) ==
    /\ p # <<>>
    /\ p[1] # "/"
    /\ p[Len(p)] # "/"
    /\ \A i \in 1..(Len(p) - 1) : ~(p[i] = "/" /\ p[i + 1] = "/")

Paths ==
    {p \in UNION {[1..n -> PathChars] : n \in 1..MaxPathLen} : WellFormedPath(p)}

Modules == {<<"a">>, <<"a", "/", "a">>}

\* v<major>.<minor>.0
Tag(major, minor) == <<"v">> \o Itoa(major) \o <<".">> \o Itoa(minor) \o <<".", "0">>

WellFormedTags == {Tag(ma, mi) : ma \in 0..MaxMajor, mi \in 0..MaxMinor}

MalformedTags == {<<>>, <<"v">>, <<"3", ".", "1">>, <<"v", "x", ".", "1">>}

Versions == WellFormedTags \cup MalformedTags

OSes == {<<"l", "i", "n", "u", "x">>, <<"d", "a", "r", "w", "i", "n">>}

Arches == {<<"a", "m", "d", "6", "4">>, <<"a", "r", "m">>, <<"a", "r", "m", "v", "7">>}

CGOs == {<<"0">>, <<"1">>}

Binary(path, module, version, os, arch, cgo) ==
    [Path |-> path, Module |-> module, Version |-> version,
     OS |-> os, Arch |-> arch, CGO |-> cgo]

FnTargets ==
    {Binary(p, m, v, o, a, c) :
        p \in Paths, m \in Modules, v \in Versions, o \in OSes, a \in Arches, c \in CGOs}

-----------------------------------------------------------------------------
(* storage/local.go: the object key *)

\* main.go: Storage: &storage.Local{Prefix: "production"}; Root is left empty
Prefix == <<"p", "r", "o", "d", "u", "c", "t", "i", "o", "n">>

Root == <<>>

getKey(bin) ==
    LET dir  == Prefix \o <<"/">> \o ReplaceAll(bin.Path, "/", "-")
        file == bin.Version \o <<"-">> \o bin.OS \o <<"-">> \o bin.Arch \o <<"-">> \o bin.CGO
    IN  Join(dir, file)

\* the file a target is stored in: filepath.Join(l.Root, key)
ObjectPath(bin) == Join(Root, getKey(bin))

-----------------------------------------------------------------------------
(* build/build.go: the dependency specifier *)

getMajorVersion(tag) ==
    LET major == SplitFirst(tag, ".")
    IN  IF Len(major) < 1 THEN [ok |-> FALSE, val |-> 0]
        ELSE Atoi(Tail(major))

\* the comparison major > 2 in place of major > 1
normalizeModuleDepOffByOne(bin) ==
    LET major == getMajorVersion(bin.Version)
    IN  IF major.ok /\ major.val > 2
        THEN bin.Module \o <<"/", "v">> \o Itoa(major.val) \o <<"@">> \o bin.Version
        ELSE bin.Module \o <<"@">> \o bin.Version

normalizeModuleDep(bin) ==
    LET mod     == bin.Module
        version == bin.Version
        major   == getMajorVersion(version)
    IN  IF major.ok /\ major.val > 1
        THEN mod \o <<"/", "v">> \o Itoa(major.val) \o <<"@">> \o version
        ELSE mod \o <<"@">> \o version

-----------------------------------------------------------------------------
(* The pure functions, applied to every target of FnTargets *)

NotComputed == [done |-> FALSE, val |-> <<>>]

Computed(v) == [done |-> TRUE, val |-> v]

FnIdle ==
    /\ fnBin = Binary(<<"a">>, <<"a">>, <<>>, <<>>, <<>>, <<>>)
    /\ fnKey = NotComputed
    /\ fnDep = NotComputed

FnInit ==
    /\ fnBin \in FnTargets
    /\ fnKey = NotComputed
    /\ fnDep = NotComputed

FnGetKey ==
    /\ ~fnKey.done
    /\ fnKey' = Computed(getKey(fnBin))
    /\ UNCHANGED <<fnBin, fnDep, installVars, storeVars, buildVars, coordVars>>

FnNormalizeModuleDep ==
    /\ ~fnDep.done
    /\ fnDep' = Computed(normalizeModuleDep(fnBin))
    /\ UNCHANGED <<fnBin, fnKey, installVars, storeVars, buildVars, coordVars>>

FnNext ==
    \/ FnGetKey
    \/ FnNormalizeModuleDep

-----------------------------------------------------------------------------
(* storage/local.go: the local filesystem object store.                     *)
(* Create is MkdirAll, os.Create (which truncates) and io.Copy, which        *)
(* writes the reader's bytes chunk by chunk at the descriptor's own offset;  *)
(* Get is os.Open, and the caller then reads the returned file to its end.   *)
(* Calls of different requests interleave between these system calls.        *)

\* two targets whose package paths differ only in "/" against "-", and a third one
StoreTargets ==
    {Binary(p, <<"a">>, Tag(1, 0), <<"l", "i", "n", "u", "x">>, <<"a", "r", "m">>, <<"0">>) :
        p \in {<<"a", "/", "a">>, <<"a", "-", "a">>, <<"a">>}}

\* the file of each of these targets
StorePathOf == [t \in StoreTargets |-> ObjectPath(t)]

StorePaths == {StorePathOf[t] : t \in StoreTargets}

\* what a caller hands to Create
Datas == {<<1, 2>>, <<3>>}

NoFile == [exists |-> FALSE, data |-> <<>>]

File(d) == [exists |-> TRUE, data |-> d]

\* filepath.Dir: the path up to its last separator
RECURSIVE Dir(_)
Dir(path) ==
    IF path = <<>> THEN <<".">>
    ELSE IF path[Len(path)] = "/" THEN Clean(SubSeq(path, 1, Len(path) - 1))
    ELSE Dir(SubSeq(path, 1, Len(path) - 1))

\* a mkdir of dir alone, which needs the parent of dir to exist
Mkdir(dirs, dir) ==
    IF Dir(dir) = <<".">> \/ Dir(dir) \in dirs THEN dirs \cup {dir} ELSE dirs

\* os.MkdirAll(dir): dir and every missing parent of it
RECURSIVE MkdirAll(_, _)
MkdirAll(dirs, dir) ==
    IF dir = <<".">> \/ dir \in dirs THEN dirs
    ELSE MkdirAll(dirs, Dir(dir)) \cup {dir}

\* an open without O_TRUNC: an existing file keeps its bytes
OpenKeepingContent(f) == IF f.exists THEN f ELSE File(<<>>)

\* os.Create opens with O_TRUNC: an existing file is emptied
OpenTruncate(f) == File(<<>>)

\* a write of one byte at offset off; a gap before it reads as zero bytes
WriteAt(data, off, byte) ==
    IF off < Len(data)
    THEN [data EXCEPT ![off + 1] = byte]
    ELSE data \o [i \in 1..(off - Len(data)) |-> 0] \o <<byte>>

IdleOp ==
    [kind |-> "idle", pc |-> "idle", bin |-> CHOOSE t \in StoreTargets : TRUE,
     data |-> <<>>, off |-> 0, fault |-> "none", failAt |-> 0, res |-> "none",
     overlap |-> FALSE, preCreated |-> FALSE, expect |-> NotComputed,
     before |-> NoFile]

Creating(o, path) ==
    sop[o].kind = "create" /\ sop[o].pc = "copying" /\ StorePathOf[sop[o].bin] = path

Reading(o, path) ==
    sop[o].kind = "get" /\ sop[o].pc = "reading" /\ StorePathOf[sop[o].bin] = path

StoreOps == 1..NOps

Unsettled == [ok |-> FALSE, bin |-> CHOOSE t \in StoreTargets : TRUE, data |-> <<>>]

Settled(bin, d) == [ok |-> TRUE, bin |-> bin, data |-> d]

CreateFaults == {"none", "mkdir", "create", "copy"}

StoreIdle ==
    /\ fs = [p \in StorePaths |-> NoFile]
    /\ sdirs = {}
    /\ sop = [o \in StoreOps |-> IdleOp]
    /\ sret = IdleOp
    /\ ncalls = 0
    /\ everCreated = {}
    /\ objects = [p \in StorePaths |-> {}]
    /\ settled = [p \in StorePaths |-> Unsettled]
    /\ broken = {}

\* The store at the start of a run: empty, or holding the object that an earlier
\* Create(t, <<1, 2>>) left for the first target.
OlderTarget == Binary(<<"a", "/", "a">>, <<"a">>, Tag(1, 0),
                      <<"l", "i", "n", "u", "x">>, <<"a", "r", "m">>, <<"0">>)

OlderData == <<1, 2>>

StoreInit ==
    \/ StoreIdle
    \/ /\ fs = [p \in StorePaths |->
                  IF p = StorePathOf[OlderTarget] THEN File(OlderData) ELSE NoFile]
       /\ sdirs = MkdirAll({}, Dir(StorePathOf[OlderTarget]))
       /\ sop = [o \in StoreOps |-> IdleOp]
       /\ sret = IdleOp
       /\ ncalls = 0
       /\ everCreated = {OlderTarget}
       /\ objects = [p \in StorePaths |->
                       IF p = StorePathOf[OlderTarget] THEN {OlderData} ELSE {}]
       /\ settled = [p \in StorePaths |->
                       IF p = StorePathOf[OlderTarget]
                       THEN Settled(OlderTarget, OlderData) ELSE Unsettled]
       /\ broken = {}

\* the calls are numbered in the order they are made, NOps of them in a run
NextCall(o) == ncalls < NOps /\ o = ncalls + 1

\* the call in slot o returns: the slot is free again and sret holds what it returned
Return(o, ret) ==
    /\ sop' = [sop EXCEPT ![o] = IdleOp]
    /\ sret' = [ret EXCEPT !.pc = "done", !.off = 0, !.failAt = 0]

\* Create, lines 29-40: the key, MkdirAll and os.Create. r delivers the bytes b and then
\* EOF, or, when fault is "copy", fails after failAt bytes. The call remembers in
\* before what the file was when it was made.
CreateCall(o, bin, b, fault, failAt) ==
    LET path   == StorePathOf[bin]
        dirs2  == MkdirAll(sdirs, Dir(path))
        call   == [IdleOp EXCEPT !.kind = "create", !.bin = bin, !.data = b,
                                 !.fault = fault, !.failAt = failAt,
                                 !.before = fs[path]]
        others == {c \in StoreOps : Creating(c, path)}
    IN  /\ NextCall(o)
        /\ ncalls' = ncalls + 1
        /\ UNCHANGED <<fnVars, installVars, buildVars, coordVars>>
        /\ everCreated' = everCreated \cup {bin}
        /\ IF fault = "mkdir"
           THEN /\ Return(o, [call EXCEPT !.res = "making directory"])
                /\ UNCHANGED <<fs, sdirs, settled, objects, broken>>
           ELSE IF fault = "create" \/ Dir(path) \notin dirs2
           THEN /\ Return(o, [call EXCEPT !.res = "creating file"])
                /\ sdirs' = dirs2
                /\ UNCHANGED <<fs, settled, objects, broken>>
           ELSE /\ sdirs' = dirs2
                /\ fs' = [fs EXCEPT ![path] = OpenTruncate(@)]
                /\ settled' = [settled EXCEPT ![path] = Unsettled]
                /\ objects' = IF fault = "none"
                              THEN [objects EXCEPT ![path] = @ \cup {b}]
                              ELSE objects
                /\ broken' = IF fault = "none" THEN broken ELSE broken \cup {path}
                /\ sop' = [c \in StoreOps |->
                             IF c = o
                             THEN [call EXCEPT !.pc = "copying", !.overlap = others # {}]
                             ELSE IF c \in others THEN [sop[c] EXCEPT !.overlap = TRUE]
                             ELSE IF Reading(c, path)
                                  THEN [sop[c] EXCEPT !.expect = NotComputed]
                             ELSE sop[c]]
                /\ UNCHANGED sret

\* Create, line 44: io.Copy writes one chunk
CreateCopy(o) ==
    LET c    == sop[o]
        path == StorePathOf[c.bin]
    IN  /\ c.kind = "create" /\ c.pc = "copying"
        /\ ~(c.fault = "copy" /\ c.off = c.failAt)
        /\ c.off < Len(c.data)
        /\ fs' = [fs EXCEPT ![path].data = WriteAt(@, c.off, c.data[c.off + 1])]
        /\ sop' = [sop EXCEPT ![o].off = c.off + 1]
        /\ UNCHANGED <<sdirs, sret, ncalls, everCreated, objects, settled, broken,
                       fnVars, installVars, buildVars, coordVars>>

\* Create, lines 45-47: io.Copy fails and its error is returned
CreateCopyFails(o) ==
    LET c == sop[o]
    IN  /\ c.kind = "create" /\ c.pc = "copying"
        /\ c.fault = "copy" /\ c.off = c.failAt
        /\ Return(o, [c EXCEPT !.res = "copying"])
        /\ UNCHANGED <<fs, sdirs, ncalls, everCreated, objects, settled, broken,
                       fnVars, installVars, buildVars, coordVars>>

\* Create, lines 42 and 49: the copy met EOF, the file is closed and nil returned
CreateReturn(o) ==
    LET c    == sop[o]
        path == StorePathOf[c.bin]
    IN  /\ c.kind = "create" /\ c.pc = "copying"
        /\ c.off = Len(c.data)
        /\ ~(c.fault = "copy" /\ c.off = c.failAt)
        /\ Return(o, [c EXCEPT !.res = "nil"])
        /\ settled' = IF c.overlap THEN settled
                      ELSE [settled EXCEPT ![path] = Settled(c.bin, c.data)]
        /\ UNCHANGED <<fs, sdirs, ncalls, everCreated, objects, broken,
                       fnVars, installVars, buildVars, coordVars>>

\* Get, lines 54-65: os.Open and the three ways it returns
GetCall(o, bin, fault) ==
    LET path == StorePathOf[bin]
        call == [IdleOp EXCEPT !.kind = "get", !.bin = bin,
                               !.fault = IF fault THEN "open" ELSE "none",
                               !.preCreated = bin \in everCreated,
                               !.expect = IF settled[path].ok /\ settled[path].bin = bin
                                          THEN Computed(settled[path].data)
                                          ELSE NotComputed]
    IN  /\ NextCall(o)
        /\ ncalls' = ncalls + 1
        /\ IF ~fs[path].exists
           THEN Return(o, [call EXCEPT !.res = "ErrObjectNotFound"])
           ELSE IF fault
           THEN Return(o, [call EXCEPT !.res = "opening file"])
           ELSE /\ sop' = [sop EXCEPT ![o] = [call EXCEPT !.pc = "reading"]]
                /\ UNCHANGED sret
        /\ UNCHANGED <<fs, sdirs, everCreated, objects, settled, broken,
                       fnVars, installVars, buildVars, coordVars>>

\* the caller reads the returned file: what lies between its offset and the file's end
GetRead(o) ==
    LET g   == sop[o]
        cur == fs[StorePathOf[g.bin]].data
    IN  /\ g.kind = "get" /\ g.pc = "reading"
        /\ g.off < Len(cur)
        /\ sop' = [sop EXCEPT ![o].data = g.data \o SubSeq(cur, g.off + 1, Len(cur)),
                              ![o].off = Len(cur)]
        /\ UNCHANGED <<fs, sdirs, sret, ncalls, everCreated, objects, settled, broken,
                       fnVars, installVars, buildVars, coordVars>>

\* the caller's read meets the end of the file: the stream is complete
GetEOF(o) ==
    LET g   == sop[o]
        cur == fs[StorePathOf[g.bin]].data
    IN  /\ g.kind = "get" /\ g.pc = "reading"
        /\ g.off >= Len(cur)
        /\ Return(o, [g EXCEPT !.res = "stream"])
        /\ UNCHANGED <<fs, sdirs, ncalls, everCreated, objects, settled, broken,
                       fnVars, installVars, buildVars, coordVars>>

StoreNext ==
    \/ \E o \in StoreOps, bin \in StoreTargets, b \in Datas, fault \in CreateFaults :
          \E failAt \in (IF fault = "copy" THEN 0..(Len(b) - 1) ELSE {0}) :
             CreateCall(o, bin, b, fault, failAt)
    \/ \E o \in StoreOps : CreateCopy(o)
    \/ \E o \in StoreOps : CreateCopyFails(o)
    \/ \E o \in StoreOps : CreateReturn(o)
    \/ \E o \in StoreOps, bin \in StoreTargets, fault \in BOOLEAN : GetCall(o, bin, fault)
    \/ \E o \in StoreOps : GetRead(o)
    \/ \E o \in StoreOps : GetEOF(o)

-----------------------------------------------------------------------------
(* build/build.go: Write.                                                    *)
(* A workspace directory holds up to MaxFiles entries, numbered in the       *)
(* lexical order in which filepath.Walk visits them. The toolchain is an     *)
(* external process: what it leaves in the workspace and how it exits are    *)
(* inputs.                                                                   *)

BuildModules == {<<"a">>, <<"b">>}

\* the targets built: two versions of one module, and another module
BuildTargets ==
    {Binary(m, m, Tag(ma, 0), <<"l", "i", "n", "u", "x">>, <<"a", "r", "m">>, <<"0">>) :
        m \in BuildModules, ma \in {1, 2}}
    \ {Binary(<<"b">>, <<"b">>, Tag(2, 0), <<"l", "i", "n", "u", "x">>, <<"a", "r", "m">>, <<"0">>)}

Home == <<"/", "h">>

\* lines 56-57: filepath.Join(home, ".cache", "gobinaries", bin.Module)
WorkDir(bin) ==
    Join(Join(Join(Home, <<".", "c", "a", "c", "h", "e">>),
              <<"g", "o", "b", "i", "n", "a", "r", "i", "e", "s">>),
         bin.Module)

WorkDirOf == [t \in BuildTargets |-> WorkDir(t)]

WorkDirs == {WorkDirOf[t] : t \in BuildTargets}

\* mode.Perm() & 0111, bit by bit
ExecMask == 73

Bit(perm, k) == (perm \div k) % 2

PermAndExecMask(perm) == 64 * Bit(perm, 64) + 8 * Bit(perm, 8) + Bit(perm, 1)

\* line 71: the test of the scan
AnyExecBit(perm) == PermAndExecMask(perm) # 0

\* isExecutable, lines 119-121
isExecutable(perm) == PermAndExecMask(perm) = ExecMask

\* what an entry of the workspace can be: a directory (0755), a file that nobody may
\* execute (0644), a file that only its owner may execute (0700) and a file that
\* everybody may execute (0755)
Absent == [present |-> FALSE, isDir |-> FALSE, perm |-> 0, data |-> <<>>]

Entry(isDir, perm, d) == [present |-> TRUE, isDir |-> isDir, perm |-> perm, data |-> d]

EntryKinds == {"absent", "dir", "plain", "owner", "exec"}

\* the bytes of a file say which target's toolchain run wrote it
TargetByte(bin) == IF bin.Module = <<"b">> THEN 3 ELSE IF bin.Version = Tag(1, 0) THEN 1 ELSE 2

MakeEntry(kind, bin, n) ==
    CASE kind = "absent" -> Absent
      [] kind = "dir"    -> Entry(TRUE, 493, <<>>)
      [] kind = "plain"  -> Entry(FALSE, 420, <<TargetByte(bin), 10 + n>>)
      [] kind = "owner"  -> Entry(FALSE, 448, <<TargetByte(bin), 10 + n>>)
      [] kind = "exec"   -> Entry(FALSE, 493, <<TargetByte(bin), 10 + n>>)

FileNames == 1..MaxFiles

\* what one toolchain run writes: for each name, nothing or a new entry
Products == [FileNames -> EntryKinds]

NoDir == [exists |-> FALSE, files |-> [n \in FileNames |-> Absent]]

\* the toolchain run of target bin writes prod into workspace w
Populate(w, prod, bin) ==
    IF \A n \in FileNames : prod[n] = "absent" THEN w
    ELSE [exists |-> TRUE,
          files  |-> [n \in FileNames |->
                        IF prod[n] = "absent" THEN w.files[n]
                        ELSE MakeEntry(prod[n], bin, n)]]

\* lines 66-78: the scan visits the entries in order, up to the entry at which the walk
\* meets an error (stopAt = MaxFiles + 1: none), and dst is the last file it saw with
\* an execute bit; 0 stands for the empty path
WalkDst(w, stopAt) ==
    LET hits == {n \in FileNames :
                    /\ n < stopAt
                    /\ w.files[n].present /\ ~w.files[n].isDir
                    /\ AnyExecBit(w.files[n].perm)}
    IN  IF ~w.exists \/ hits = {} THEN 0
        ELSE CHOOSE n \in hits : \A m \in hits : m <= n

\* no regular file of the workspace has the execute bit for owner, group and other
NoExecutable(w) ==
    \A n \in FileNames :
        ~(w.files[n].present /\ ~w.files[n].isDir /\ isExecutable(w.files[n].perm))

BuildAttempts == 1..NAttempts

IdleAttempt ==
    [pc |-> "idle", bin |-> CHOOSE t \in BuildTargets : TRUE, dst |-> 0, out |-> <<>>,
     err |-> "none", fresh |-> TRUE, populated |-> FALSE, installed |-> FALSE,
     noExec |-> FALSE, walkErr |-> FALSE, fault |-> "none"]

InFlight(a) == att[a].pc # "idle"

BuildIdle ==
    /\ ws = [d \in WorkDirs |-> NoDir]
    /\ att = [a \in BuildAttempts |-> IdleAttempt]
    /\ aret = IdleAttempt
    /\ nwrites = 0

\* the call in slot a returns: aret holds what it returned and what it went through
WriteReturns(a, ret) ==
    /\ att' = [att EXCEPT ![a] = IdleAttempt]
    /\ aret' = [ret EXCEPT !.pc = "done", !.dst = 0]

\* the open and copy without the isExecutable test of lines 91-93
OpenAndCopyNoCheck(w, dst, fault) ==
    IF dst = 0 \/ ~w.exists \/ ~w.files[dst].present
    THEN [err |-> "opening", out |-> <<>>]
    ELSE IF fault = "stat" THEN [err |-> "stating", out |-> <<>>]
    ELSE IF w.files[dst].isDir THEN [err |-> "copying", out |-> <<>>]
    ELSE IF fault = "copy" THEN [err |-> "copying", out |-> <<w.files[dst].data[1]>>]
    ELSE IF fault = "close" THEN [err |-> "closing", out |-> w.files[dst].data]
    ELSE [err |-> "none", out |-> w.files[dst].data]

\* lines 81-103 on the file dst of workspace w: os.Open, Stat, the isExecutable test,
\* io.Copy to w and Close. fault names the step that fails ("none": no step does);
\* a failing copy has written the first byte, and reading a directory fails at once.
OpenAndCopy(w, dst, fault) ==
    IF dst = 0 \/ ~w.exists \/ ~w.files[dst].present
    THEN [err |-> "opening", out |-> <<>>]
    ELSE IF fault = "stat" THEN [err |-> "stating", out |-> <<>>]
    ELSE IF ~isExecutable(w.files[dst].perm) THEN [err |-> "ErrNotExecutable", out |-> <<>>]
    ELSE IF w.files[dst].isDir THEN [err |-> "copying", out |-> <<>>]
    ELSE IF fault = "copy" THEN [err |-> "copying", out |-> <<w.files[dst].data[1]>>]
    ELSE IF fault = "close" THEN [err |-> "closing", out |-> w.files[dst].data]
    ELSE [err |-> "none", out |-> w.files[dst].data]

CopyFaults == {"none", "stat", "copy", "close"}

\* Write, lines 56-60. Calls for one target do not overlap (the per-target section of
\* the coordinator); calls for different targets do.
WriteCall(a, bin, homeFails) ==
    LET dir  == WorkDirOf[bin]
        call == [IdleAttempt EXCEPT
                    !.bin = bin,
                    !.fresh = /\ ~ws[dir].exists
                              /\ \A b \in BuildAttempts :
                                    InFlight(b) => WorkDirOf[att[b].bin] # dir]
    IN  /\ nwrites < NAttempts /\ a = nwrites + 1
        /\ nwrites' = nwrites + 1
        /\ \A b \in BuildAttempts : InFlight(b) => att[b].bin # bin
        /\ IF homeFails
           THEN WriteReturns(a, [call EXCEPT !.err = "user home dir"])
           ELSE /\ att' = [att EXCEPT ![a] = [call EXCEPT !.pc = "install"]]
                /\ UNCHANGED aret
        /\ UNCHANGED <<ws, fnVars, installVars, storeVars, coordVars>>

\* Write, lines 62-65, and install: the toolchain runs with GOPATH = dir, leaves prod
\* there and exits zero or not
Install(a, prod, exitOk) ==
    LET dir == WorkDirOf[att[a].bin]
        w2  == Populate(ws[dir], prod, att[a].bin)
        at2 == [att[a] EXCEPT !.installed = exitOk, !.populated = w2.exists]
    IN  /\ att[a].pc = "install"
        /\ ws' = [ws EXCEPT ![dir] = w2]
        /\ IF exitOk
           THEN /\ att' = [att EXCEPT ![a] = [at2 EXCEPT !.pc = "walk"]]
                /\ UNCHANGED aret
           ELSE WriteReturns(a, [at2 EXCEPT !.err = "tidy module"])
        /\ UNCHANGED <<nwrites, fnVars, installVars, storeVars, coordVars>>

\* Write, lines 66-78: the scan; its error is printed and Write goes on
Walk(a, stopAt) ==
    LET w == ws[WorkDirOf[att[a].bin]]
    IN  /\ att[a].pc = "walk"
        /\ att' = [att EXCEPT ![a].pc = "open",
                              ![a].dst = WalkDst(w, stopAt),
                              ![a].noExec = NoExecutable(w),
                              ![a].walkErr = ~w.exists \/ stopAt <= MaxFiles]
        /\ UNCHANGED <<ws, aret, nwrites, fnVars, installVars, storeVars, coordVars>>

\* Write, lines 81-103
Copy(a, fault) ==
    LET w  == ws[WorkDirOf[att[a].bin]]
        r  == OpenAndCopy(w, att[a].dst, fault)
        at2 == [att[a] EXCEPT !.err = r.err, !.out = r.out, !.fault = fault]
    IN  /\ att[a].pc = "open"
        /\ IF r.err = "none"
           THEN /\ att' = [att EXCEPT ![a] = [at2 EXCEPT !.pc = "clean"]]
                /\ UNCHANGED aret
           ELSE WriteReturns(a, at2)
        /\ UNCHANGED <<ws, nwrites, fnVars, installVars, storeVars, coordVars>>

\* Write, lines 105-109: os.RemoveAll(dir), which may fail and leave the directory
RemoveAll(a, fails) ==
    LET dir == WorkDirOf[att[a].bin]
    IN  /\ att[a].pc = "clean"
        /\ ws' = IF fails THEN ws ELSE [ws EXCEPT ![dir] = NoDir]
        /\ WriteReturns(a, [att[a] EXCEPT !.err = IF fails THEN "cleaning" ELSE "none",
                                          !.fault = IF fails THEN "clean" ELSE "none"])
        /\ UNCHANGED <<nwrites, fnVars, installVars, storeVars, coordVars>>

BuildNext ==
    \/ \E a \in BuildAttempts, bin \in BuildTargets, homeFails \in BOOLEAN :
          WriteCall(a, bin, homeFails)
    \/ \E a \in BuildAttempts, prod \in Products, exitOk \in BOOLEAN : Install(a, prod, exitOk)
    \/ \E a \in BuildAttempts, stopAt \in 1..(MaxFiles + 1) : Walk(a, stopAt)
    \/ \E a \in BuildAttempts, fault \in CopyFaults : Copy(a, fault)
    \/ \E a \in BuildAttempts, fails \in BOOLEAN : RemoveAll(a, fails)

-----------------------------------------------------------------------------
(* The toolchain subprocess: init() and environ(), install and command, and Write  *)
(* up to the return of install, in two runs of the program with an environment     *)
(* each and the same target                                                        *)

PATH == <<"P", "A", "T", "H">>

HOME == <<"H", "O", "M", "E">>

PWD == <<"P", "W", "D">>

GOPATH == <<"G", "O", "P", "A", "T", "H">>

GOLANG_VERSION == <<"G", "O", "L", "A", "N", "G", "_", "V", "E", "R", "S", "I", "O", "N">>

TMPDIR == <<"T", "M", "P", "D", "I", "R">>

CGO_ENABLED == <<"C", "G", "O", "_", "E", "N", "A", "B", "L", "E", "D">>

GOOS == <<"G", "O", "O", "S">>

GOARCH == <<"G", "O", "A", "R", "C", "H">>

GOARM == <<"G", "O", "A", "R", "M">>

\* a variable of the process environment that is not whitelisted
SECRET == <<"S", "E", "C", "R", "E", "T">>

\* lines 31-38
environWhitelist == <<PATH, HOME, PWD, GOPATH, GOLANG_VERSION, TMPDIR>>

\* the values a variable of the process environment may have: any string of up to
\* MaxValueLen characters, the separator = among them
EnvValues == UNION {[1..n -> {"p", "="}] : n \in 0..MaxValueLen}

Unset == [set |-> FALSE, val |-> <<>>]

SetTo(v) == [set |-> TRUE, val |-> v]

EnvChoices == {Unset} \cup {SetTo(v) : v \in EnvValues}

SecretChoices == {Unset, SetTo(<<"s">>)}

EnvEntry(name, c) == IF c.set THEN <<name \o <<"=">> \o c.val>> ELSE <<>>

\* os.Environ(): HOME is set, PATH and SECRET are set or not
Environ(path, secret) ==
    <<HOME \o <<"=">> \o Home>> \o EnvEntry(PATH, path) \o EnvEntry(SECRET, secret)

\* init, lines 22-28: environMap[parts[0]] = parts[1] for every entry, in order
RECURSIVE initLoop(_, _)
initLoop(env, m) ==
    IF env = <<>> THEN m
    ELSE LET parts == Split(Head(env), "=")
             name  == parts[1]
         IN  initLoop(Tail(env),
                      [n \in DOMAIN m \cup {name} |-> IF n = name THEN parts[2] ELSE m[n]])

\* environMap[name]: the empty string for a name the map does not have
MapGet(m, name) == IF name \in DOMAIN m THEN m[name] ELSE <<>>

\* an environ that hands on every variable of the map
environAll(m) ==
    [k \in 1..Len(environWhitelist) |->
        environWhitelist[k] \o <<"=">> \o MapGet(m, environWhitelist[k])]
    \o (IF SECRET \in DOMAIN m THEN <<SECRET \o <<"=">> \o m[SECRET]>> ELSE <<>>)

\* environ, lines 209-214
environ(m) ==
    [k \in 1..Len(environWhitelist) |->
        environWhitelist[k] \o <<"=">> \o MapGet(m, environWhitelist[k])]

armv == <<"a", "r", "m", "v">>

\* "-s -w -X main.version="
LdflagsPrefix ==
    <<"-", "s", " ", "-", "w", " ", "-", "X", " ",
      "m", "a", "i", "n", ".", "v", "e", "r", "s", "i", "o", "n", "=">>

NoCmd == [name |-> "", ldflags |-> <<>>, pkg |-> <<>>, env |-> <<>>]

\* an install that takes every architecture that begins with arm for an ARM profile
installArmPrefix(bin, dir, m) ==
    [name    |-> "go install -trimpath -ldflags",
     ldflags |-> LdflagsPrefix \o bin.Version,
     pkg     |-> bin.Module \o <<"/", ".", ".", ".", "@">> \o bin.Version,
     env     |-> environ(m)
                 \o <<GOPATH \o <<"=">> \o dir,
                      CGO_ENABLED \o <<"=">> \o bin.CGO,
                      GOOS \o <<"=">> \o bin.OS>>
                 \o (IF HasPrefix(bin.Arch, <<"a", "r", "m">>)
                     THEN <<GOARCH \o <<"=", "a", "r", "m">>,
                            GOARM \o <<"=">> \o TrimPrefix(bin.Arch, armv)>>
                     ELSE <<GOARCH \o <<"=">> \o bin.Arch>>)]

\* install, lines 134-147: the command and its environment
install(bin, dir, m) ==
    [name    |-> "go install -trimpath -ldflags",
     ldflags |-> LdflagsPrefix \o bin.Version,
     pkg     |-> bin.Module \o <<"/", ".", ".", ".", "@">> \o bin.Version,
     env     |-> environ(m)
                 \o <<GOPATH \o <<"=">> \o dir,
                      CGO_ENABLED \o <<"=">> \o bin.CGO,
                      GOOS \o <<"=">> \o bin.OS>>
                 \o (IF HasPrefix(bin.Arch, armv)
                     THEN <<GOARCH \o <<"=", "a", "r", "m">>,
                            GOARM \o <<"=">> \o TrimPrefix(bin.Arch, armv)>>
                     ELSE <<GOARCH \o <<"=">> \o bin.Arch>>)]

NoError == [nil |-> TRUE, err |-> 0, stderr |-> <<>>]

\* a command that keeps the captured text as it is
commandUntrimmed(exit, stderr) ==
    IF exit # 0 THEN [nil |-> FALSE, err |-> exit, stderr |-> stderr] ELSE NoError

\* command, lines 184-195: cmd.Run() of a subprocess that exits with status exit and
\* has written stderr
command(exit, stderr) ==
    IF exit # 0 THEN [nil |-> FALSE, err |-> exit, stderr |-> TrimSpace(stderr)] ELSE NoError

\* Write, line 64: fmt.Errorf("tidy module: %w", err)
TidyModule(e) == [nil |-> FALSE, wrap |-> "tidy module", cause |-> e]

NoWriteError == [nil |-> TRUE, wrap |-> "", cause |-> NoError]

Runs == {1, 2}

InstallArches ==
    {<<"a", "m", "d", "6", "4">>, <<"a", "r", "m">>, <<"a", "r", "m", "6", "4">>,
     <<"a", "r", "m", "v", "7">>, <<"a", "r", "m", "v">>, <<"a", "r", "m", "v", "x">>}

InstallTargets ==
    {Binary(<<"a">>, <<"a">>, Tag(ma, 0), <<"l", "i", "n", "u", "x">>, arch, <<"0">>) :
        ma \in {0, 1, 2, MaxMajor}, arch \in InstallArches}

Exits == {0, 1}

Stderrs == {<<"e">>, <<" ", "e", " ", "e", "\n">>}

IdleRun ==
    [pc |-> "start", cmd |-> NoCmd, err |-> NoWriteError, out |-> <<>>,
     exit |-> 0, raw |-> <<>>]

InstallIdle ==
    /\ procEnv = [i \in Runs |-> Environ(Unset, Unset)]
    /\ environMap = [i \in Runs |-> NotComputed]
    /\ run = [i \in Runs |-> IdleRun]
    /\ ibin = CHOOSE t \in InstallTargets : TRUE

InstallInit ==
    /\ procEnv \in {<<Environ(p1, s1), Environ(p2, s2)>> :
                       p1 \in EnvChoices, s1 \in SecretChoices,
                       p2 \in EnvChoices, s2 \in SecretChoices}
    /\ environMap = [i \in Runs |-> NotComputed]
    /\ run = [i \in Runs |-> IdleRun]
    /\ ibin \in InstallTargets

\* the program starts: init() fills environMap from os.Environ()
init(i) ==
    /\ run[i].pc = "start"
    /\ environMap' = [environMap EXCEPT ![i] = Computed(initLoop(procEnv[i], <<>>))]
    /\ run' = [run EXCEPT ![i].pc = "ready"]
    /\ UNCHANGED <<procEnv, ibin, fnVars, storeVars, buildVars, coordVars>>

\* Write, lines 56-65: the directory, install with the command it runs, and the
\* return of install's error; the subprocess exits with exit and has written stderr
WriteInstall(i, exit, stderr) ==
    LET cmd == install(ibin, WorkDir(ibin), environMap[i].val)
        e   == command(exit, stderr)
    IN  /\ run[i].pc = "ready"
        /\ run' = [run EXCEPT ![i] =
                     [pc   |-> IF e.nil THEN "installed" ELSE "returned",
                      cmd  |-> cmd,
                      err  |-> IF e.nil THEN NoWriteError ELSE TidyModule(e),
                      out  |-> <<>>,
                      exit |-> exit,
                      raw  |-> IF exit = 0 THEN <<>> ELSE stderr]]
        /\ UNCHANGED <<procEnv, environMap, ibin, fnVars, storeVars, buildVars, coordVars>>

InstallNext ==
    \/ \E i \in Runs : init(i)
    \/ \E i \in Runs, exit \in Exits, stderr \in Stderrs : WriteInstall(i, exit, stderr)

-----------------------------------------------------------------------------
(* The coordinator: a request first tries Storage.Get; on a miss it enters the     *)
(* section of its target and builds, or waits for the request that is building;    *)
(* a successful build is stored with Storage.Create before the section is          *)
(* released; a failed one is not stored and its error goes to the waiters.         *)

\* the targets requested: two versions of one module
CoordTargets ==
    {Binary(<<"a">>, <<"a">>, Tag(ma, 0), <<"l", "i", "n", "u", "x">>, <<"a", "r", "m">>, <<"0">>) :
        ma \in {1, 2}}

CoordPathOf == [t \in CoordTargets |-> ObjectPath(t)]

CoordPaths == {CoordPathOf[t] : t \in CoordTargets}

\* what the toolchain leaves for a requested target: at most the first entry
CoordProducts == {prod \in Products : \A n \in FileNames : n > 1 => prod[n] = "absent"}

Reqs == 1..NReq

IdleReq ==
    [pc |-> "idle", bin |-> CHOOSE t \in CoordTargets : TRUE, role |-> "none",
     data |-> <<>>, off |-> 0, out |-> <<>>, err |-> "none", cause |-> "none",
     built |-> FALSE, created |-> FALSE]

Active(r) == req[r].pc \notin {"idle", "done"}

CoordIdle ==
    /\ req = [r \in Reqs |-> IdleReq]
    /\ section = [t \in CoordTargets |-> 0]
    /\ conc = {}

CoordInit ==
    /\ req = [r \in Reqs |-> IdleReq]
    /\ section = [t \in CoordTargets |-> 0]
    /\ conc = {}
    /\ fs = [p \in CoordPaths |-> NoFile]
    /\ sdirs = {}
    /\ sop = [o \in StoreOps |-> IdleOp]
    /\ sret = IdleOp
    /\ ncalls = 0
    /\ everCreated = {}
    /\ objects = [p \in StorePaths |-> {}]
    /\ settled = [p \in StorePaths |-> Unsettled]
    /\ broken = {}

\* what build.Write(w, bin) does from its call to its return, in the workspace ws0:
\* the toolchain run, the scan, the copy to w and the removal of the directory
WriteOutcome(ws0, bin, prod, exitOk, fault) ==
    LET w1  == Populate(ws0, prod, bin)
        dst == WalkDst(w1, MaxFiles + 1)
        r   == OpenAndCopy(w1, dst, fault)
    IN  IF ~exitOk
        THEN [err |-> "tidy module", out |-> <<>>, ws |-> w1, cause |-> "exit"]
        ELSE [err |-> r.err, out |-> r.out,
              ws  |-> IF r.err = "none" THEN NoDir ELSE w1,
              cause |-> IF NoExecutable(w1) THEN "noexec" ELSE fault]

\* a request for bin arrives: Storage.Get opens the object when there is one; on a
\* miss the request takes the section of bin and builds, or waits for its holder
Arrive(r, bin) ==
    LET path == CoordPathOf[bin]
        call == [IdleReq EXCEPT !.bin = bin]
    IN  /\ req[r].pc = "idle"
        /\ \A q \in Reqs : q < r => req[q].pc # "idle"
        /\ conc' = conc \cup {{r, q} : q \in {x \in Reqs : Active(x)}}
        /\ IF fs[path].exists
           THEN /\ req' = [req EXCEPT ![r] = [call EXCEPT !.pc = "reading", !.role = "hit"]]
                /\ UNCHANGED section
           ELSE IF section[bin] = 0
           THEN /\ req' = [req EXCEPT ![r] = [call EXCEPT !.pc = "build", !.role = "leader"]]
                /\ section' = [section EXCEPT ![bin] = r]
           ELSE /\ req' = [req EXCEPT ![r] = [call EXCEPT !.pc = "waiting", !.role = "waiter"]]
                /\ UNCHANGED section
        /\ UNCHANGED <<fs, sdirs, sop, sret, ncalls, everCreated, objects, settled, broken>>
        /\ UNCHANGED <<fnVars, installVars, buildVars>>

\* the holder of the section calls build.Write
Build(r, prod, exitOk, fault) ==
    LET bin == req[r].bin
        dir == WorkDirOf[bin]
        o   == WriteOutcome(ws[dir], bin, prod, exitOk, fault)
    IN  /\ req[r].pc = "build"
        /\ ws' = [ws EXCEPT ![dir] = o.ws]
        /\ req' = [req EXCEPT ![r].pc = IF o.err = "none" THEN "create" ELSE "failed",
                              ![r].out = o.out,
                              ![r].err = o.err,
                              ![r].cause = o.cause,
                              ![r].built = TRUE]
        /\ UNCHANGED <<section, conc, att, aret, nwrites, fnVars, installVars, storeVars>>

\* Storage.Create of the built bytes, lines 29-40: MkdirAll and os.Create
CoordCreate(r) ==
    LET path == CoordPathOf[req[r].bin]
    IN  /\ req[r].pc = "create"
        /\ sdirs' = MkdirAll(sdirs, Dir(path))
        /\ fs' = [fs EXCEPT ![path] = OpenTruncate(fs[path])]
        /\ req' = [req EXCEPT ![r].pc = "copying", ![r].off = 0, ![r].created = TRUE]
        /\ UNCHANGED <<section, conc, sop, sret, ncalls, everCreated, objects, settled, broken>>
        /\ UNCHANGED <<fnVars, installVars, buildVars>>

\* Storage.Create, line 44: io.Copy writes the next byte to the file
CoordCopy(r) ==
    LET path == CoordPathOf[req[r].bin]
        off  == req[r].off
    IN  /\ req[r].pc = "copying"
        /\ off < Len(req[r].out)
        /\ fs' = [fs EXCEPT ![path].data = WriteAt(fs[path].data, off, req[r].out[off + 1])]
        /\ req' = [req EXCEPT ![r].off = off + 1]
        /\ UNCHANGED <<section, conc, sdirs, sop, sret, ncalls, everCreated, objects, settled, broken>>
        /\ UNCHANGED <<fnVars, installVars, buildVars>>

\* the section would be left as soon as the file is open, whatever was copied
CopyDoneAtOpen(off, data) == TRUE

\* Storage.Create, lines 44-49: io.Copy returns at the reader's EOF, after the last
\* byte was written, and only then does Create close the file and return nil
CopyDone(off, data) == off = Len(data)

\* the holder leaves the section, after Create returned or after the build failed: it
\* answers with the built bytes or the error, and each waiter replays the stored
\* object through Storage.Get (ErrObjectNotFound when there is no file, line 57-58)
\* or answers with the same error
Release(r) ==
    LET bin == req[r].bin
        ok  == req[r].pc = "copying"
        found == fs[CoordPathOf[bin]].exists
        handOver(q) ==
            IF q = r
            THEN [req[r] EXCEPT !.pc = "done", !.off = 0,
                                !.data = IF ok THEN req[r].out ELSE <<>>]
            ELSE IF req[q].pc = "waiting" /\ req[q].bin = bin
            THEN IF ok /\ found THEN [req[q] EXCEPT !.pc = "reading"]
                 ELSE IF ok THEN [req[q] EXCEPT !.pc = "done", !.err = "ErrObjectNotFound"]
                 ELSE [req[q] EXCEPT !.pc = "done", !.err = req[r].err]
            ELSE req[q]
    IN  /\ \/ req[r].pc = "copying" /\ CopyDone(req[r].off, req[r].out)
           \/ req[r].pc = "failed"
        /\ section[bin] = r
        /\ section' = [section EXCEPT ![bin] = 0]
        /\ req' = [q \in Reqs |-> handOver(q)]
        /\ UNCHANGED <<conc, fnVars, installVars, storeVars, buildVars>>

\* the reader that Storage.Get returned, lines 53-66: the request reads the next byte
CoordRead(r) ==
    LET f == fs[CoordPathOf[req[r].bin]]
    IN  /\ req[r].pc = "reading"
        /\ req[r].off < Len(f.data)
        /\ req' = [req EXCEPT ![r].data = req[r].data \o <<f.data[req[r].off + 1]>>,
                              ![r].off = req[r].off + 1]
        /\ UNCHANGED <<section, conc, fnVars, installVars, storeVars, buildVars>>

\* the reader is at the end of the file: the request answers with the bytes it read
CoordEOF(r) ==
    LET f == fs[CoordPathOf[req[r].bin]]
    IN  /\ req[r].pc = "reading"
        /\ req[r].off >= Len(f.data)
        /\ req' = [req EXCEPT ![r].pc = "done", ![r].off = 0]
        /\ UNCHANGED <<section, conc, fnVars, installVars, storeVars, buildVars>>

CoordNext ==
    \/ \E r \in Reqs, bin \in CoordTargets : Arrive(r, bin)
    \/ \E r \in Reqs, prod \in CoordProducts, exitOk \in BOOLEAN, fault \in CopyFaults :
          Build(r, prod, exitOk, fault)
    \/ \E r \in Reqs : CoordCreate(r)
    \/ \E r \in Reqs : CoordCopy(r)
    \/ \E r \in Reqs : Release(r)
    \/ \E r \in Reqs : CoordRead(r)
    \/ \E r \in Reqs : CoordEOF(r)

-----------------------------------------------------------------------------
(* Specifications *)

InitFn == FnInit /\ StoreIdle /\ BuildIdle /\ InstallIdle /\ CoordIdle

SpecFn == InitFn /\ [][FnNext]_vars

InitStorage == FnIdle /\ StoreInit /\ BuildIdle /\ InstallIdle /\ CoordIdle

SpecStorage == InitStorage /\ [][StoreNext]_vars

InitBuild == FnIdle /\ StoreIdle /\ BuildIdle /\ InstallIdle /\ CoordIdle

SpecBuild == InitBuild /\ [][BuildNext]_vars

InitCoordinator == FnIdle /\ CoordInit /\ BuildIdle /\ InstallIdle

SpecCoordinator == InitCoordinator /\ [][CoordNext]_vars

InitInstall == FnIdle /\ StoreIdle /\ BuildIdle /\ InstallInit /\ CoordIdle

SpecInstall == InitInstall /\ [][InstallNext]_vars

-----------------------------------------------------------------------------
(* Properties of the object store, stated on sret, the last call that returned *)

\* C2: a Get never returns a partially written object: the stream it returns is a
\* complete object, the bytes some Create was given for that file (no Create on the
\* file having failed).
C2_GetNeverPartial ==
    (sret.kind = "get" /\ sret.res = "stream" /\ StorePathOf[sret.bin] \notin broken)
        => sret.data \in objects[StorePathOf[sret.bin]]

\* C3: a Get of T that is issued after Create(T, b) returned nil, with no Create on the
\* same file running beside either of them, and whose os.Open meets no I/O fault,
\* returns a stream and the stream is exactly b.
C3_RoundTrip ==
    (sret.kind = "get" /\ sret.fault = "none" /\ sret.expect.done)
        => (sret.res = "stream" /\ sret.data = sret.expect.val)

\* a Get that returned the bytes <<3>>, which a Create of this run stored
C3_Witness ==
    /\ sret.kind = "get" /\ sret.fault = "none" /\ sret.expect.done
    /\ sret.res = "stream" /\ sret.data = <<3>>

\* C4: a Get of T, no Create for T having been called (whatever was created for other
\* targets) and os.Open meeting no I/O fault, returns ErrObjectNotFound.
C4_NotFoundBeforeCreate ==
    (sret.kind = "get" /\ sret.fault = "none" /\ ~sret.preCreated)
        => sret.res = "ErrObjectNotFound"

\* C16: after a Create that returned an error, no other Create having run on the same
\* file beside it or since, the file of the target is what it was when the Create
\* was called: absent, or the complete object it held.
C16_FailedCreateLeavesStore ==
    (/\ sret.kind = "create" /\ sret.res # "nil" /\ ~sret.overlap
     /\ \A c \in StoreOps : ~Creating(c, StorePathOf[sret.bin]))
        => fs[StorePathOf[sret.bin]] = sret.before

\* C19: a Create that meets no I/O fault returns nil, whether the directories of the key
\* existed or not, and when it has returned, no other Create having run on the same
\* file beside it or since, the directory of the key exists and the file holds
\* exactly the bytes given, whatever it held before.
C19_CreateOverwrites ==
    (sret.kind = "create" /\ sret.fault = "none")
        => /\ sret.res = "nil"
           /\ Dir(StorePathOf[sret.bin]) \in sdirs
           /\ (~sret.overlap /\ \A c \in StoreOps : ~Creating(c, StorePathOf[sret.bin]))
                 => fs[StorePathOf[sret.bin]] = File(sret.data)

\* the object <<1, 2>> of an earlier Create was replaced by the shorter <<3>>
C19_Witness ==
    /\ sret.kind = "create" /\ sret.fault = "none" /\ sret.res = "nil" /\ ~sret.overlap
    /\ sret.before = File(OlderData) /\ sret.data = <<3>>
    /\ \A c \in StoreOps : ~Creating(c, StorePathOf[sret.bin])
    /\ fs[StorePathOf[sret.bin]] = File(<<3>>)

-----------------------------------------------------------------------------
(* Properties of the pure functions *)

\* C8: getKey is deterministic and injective: the key computed for a target is the
\* key of that target whenever it is computed, and every target that differs from it
\* in its path, its version, its os, its arch or its cgo setting has a different key.
C8_KeyInjective ==
    fnKey.done =>
        /\ fnKey.val = getKey(fnBin)
        /\ \A t \in {[fnBin EXCEPT !.Path = p] : p \in Paths}
                   \cup {[fnBin EXCEPT !.Version = v] : v \in Versions}
                   \cup {[fnBin EXCEPT !.OS = os] : os \in OSes}
                   \cup {[fnBin EXCEPT !.Arch = arch] : arch \in Arches}
                   \cup {[fnBin EXCEPT !.CGO = cgo] : cgo \in CGOs} :
              t # fnBin => getKey(t) # fnKey.val

\* C10: for a version tag v<major>.<minor>.0 the dependency specifier is
\* <module>/v<major>@<version> when major >= 2 and <module>@<version> when major
\* is 0 or 1.
C10_MajorSuffix ==
    fnDep.done =>
        \A ma \in 0..MaxMajor, mi \in 0..MaxMinor :
            fnBin.Version = Tag(ma, mi) =>
                fnDep.val = IF ma >= 2
                            THEN fnBin.Module \o <<"/", "v">> \o Itoa(ma) \o <<"@">> \o fnBin.Version
                            ELSE fnBin.Module \o <<"@">> \o fnBin.Version

C10_Witness ==
    /\ fnDep.done
    /\ fnBin.Module = <<"a">>
    /\ fnBin.Version = <<"v", "3", ".", "1", ".", "0">>
    /\ fnDep.val = <<"a", "/", "v", "3", "@", "v", "3", ".", "1", ".", "0">>

-----------------------------------------------------------------------------
(* Properties of build.Write, stated on aret, the last call that returned *)

\* C6: when Write returns, having created or populated its workspace directory, the
\* directory no longer exists (no other call being at work in the same directory).
C6_WorkspaceRemoved ==
    (/\ aret.pc = "done" /\ aret.populated
     /\ \A b \in BuildAttempts : InFlight(b) => WorkDirOf[att[b].bin] # WorkDirOf[aret.bin])
        => ~ws[WorkDirOf[aret.bin]].exists

\* C7: every build attempt starts in a directory that does not exist yet and that no
\* other attempt in flight uses, and no two attempts in flight share a directory.
C7_FreshWorkspace ==
    /\ \A a \in BuildAttempts : InFlight(a) => att[a].fresh
    /\ \A a, b \in BuildAttempts :
          (a # b /\ InFlight(a) /\ InFlight(b)) => WorkDirOf[att[a].bin] # WorkDirOf[att[b].bin]

\* C9: when the toolchain exited zero and the scanned workspace held no regular file
\* with the execute bit for owner, group and other (the scan and the later steps
\* meeting no I/O fault), Write returns ErrNotExecutable and has written nothing.
C9_NotExecutable ==
    (/\ aret.pc = "done" /\ aret.installed /\ aret.noExec
     /\ ~aret.walkErr /\ aret.fault = "none")
        => (aret.err = "ErrNotExecutable" /\ aret.out = <<>>)

\* C14: no failure of a step of Write is ignored: a call whose scan met an error does
\* not go on to open, copy and clean, and a call in which the scan, the stat, the
\* copy, the close or the removal failed returns an error.
C14_NoFailureIgnored ==
    /\ \A a \in BuildAttempts : att[a].walkErr => att[a].pc \notin {"open", "clean"}
    /\ (aret.pc = "done" /\ (aret.walkErr \/ aret.fault # "none")) => aret.err # "none"

\* C17: when the toolchain exited zero and the scanned workspace held a regular file
\* with the execute bit for owner, group and other, a call of Write that was alone
\* and met no I/O fault returns nil and has written the two bytes of a file,
\* whatever else the workspace held.
C17_ExecutableIsServed ==
    (/\ aret.pc = "done" /\ aret.installed /\ ~aret.noExec
     /\ ~aret.walkErr /\ aret.fault = "none"
     /\ aret.fresh /\ nwrites = 1)
        => (aret.err = "none" /\ Len(aret.out) = 2)

-----------------------------------------------------------------------------
(* Properties of the coordinator *)

\* C1: two requests for the same target that were in flight at the same time finish
\* with the same outcome, the same bytes or the same error, and the builder was not
\* invoked for both of them.
C1_SingleFlight ==
    \A r, q \in Reqs :
        (/\ r < q /\ {r, q} \in conc
         /\ req[r].pc = "done" /\ req[q].pc = "done"
         /\ req[r].bin = req[q].bin)
            => /\ req[r].err = req[q].err
               /\ req[r].data = req[q].data
               /\ ~(req[r].built /\ req[q].built)

-----------------------------------------------------------------------------
(* Properties of install and of the subprocess environment *)

Installed(i) == run[i].pc \in {"installed", "returned"}

\* the environment env has the entry e
Has(env, e) == \E k \in 1..Len(env) : env[k] = e

\* the name of an entry: what precedes its first =
NameOf(e) == SplitFirst(e, "=")

HasName(env, name) == \E k \in 1..Len(env) : NameOf(env[k]) = name

\* arch is armv followed by a profile number
IsProfile(arch) ==
    /\ Len(arch) > 4
    /\ SubSeq(arch, 1, 4) = <<"a", "r", "m", "v">>
    /\ \A k \in 5..Len(arch) : IsDigit(arch[k])

WhitelistedEntries(env) ==
    SelectSeq(env, LAMBDA e : \E k \in 1..Len(environWhitelist) : NameOf(e) = environWhitelist[k])

SubprocessNames ==
    {PATH, HOME, PWD, GOLANG_VERSION, TMPDIR, GOPATH, CGO_ENABLED, GOOS, GOARCH, GOARM}

C15_InstallUsesSpecifier ==
    \A i \in Runs :
        Installed(i) =>
            \A ma \in 0..MaxMajor :
                ibin.Version = Tag(ma, 0) =>
                    run[i].cmd.pkg =
                        (IF ma >= 2 THEN ibin.Module \o <<"/", "v">> \o Itoa(ma) ELSE ibin.Module)
                        \o <<"/", ".", ".", ".", "@">> \o ibin.Version

\* t is raw without its leading and trailing white space
IsTrimOf(t, raw) ==
    /\ t = <<>> \/ (~IsSpace(t[1]) /\ ~IsSpace(t[Len(t)]))
    /\ \E a \in 0..Len(raw) : \E b \in a..Len(raw) :
          /\ t = SubSeq(raw, a + 1, b)
          /\ \A k \in 1..a : IsSpace(raw[k])
          /\ \A k \in (b + 1)..Len(raw) : IsSpace(raw[k])

\* C18: when the subprocess exited non-zero, Write has returned an error that wraps a
\* build Error with the exit error and the trimmed text of standard error, and has
\* written nothing.
C18_BuildError ==
    \A i \in Runs :
        run[i].exit # 0 =>
            /\ run[i].pc = "returned"
            /\ ~run[i].err.nil
            /\ run[i].err.wrap = "tidy module"
            /\ ~run[i].err.cause.nil
            /\ run[i].err.cause.err = run[i].exit
            /\ IsTrimOf(run[i].err.cause.stderr, run[i].raw)
            /\ run[i].out = <<>>

\* the subprocess wrote " e e\n" and exited with 1: the Error carries "e e"
C18_Witness ==
    /\ run[1].pc = "returned" /\ run[1].exit = 1
    /\ run[1].raw = <<" ", "e", " ", "e", "\n">>
    /\ run[1].err.cause.stderr = <<"e", " ", "e">>

\* C20: every whitelisted variable that is set in the process environment reaches the
\* subprocess with its full value, a value that contains = included.
C20_FullValue ==
    \A i \in Runs :
        Installed(i) =>
            \A k \in 1..Len(procEnv[i]) :
                (\E w \in 1..Len(environWhitelist) : NameOf(procEnv[i][k]) = environWhitelist[w])
                    => Has(run[i].cmd.env, procEnv[i][k])

====
